---------------------------- MODULE Spec2Model ----------------------------
(***************************************************************************)
(* A model of the icns package: the container parser readICNS              *)
(* (src/reader.go), the format registry built by init() (src/reader.go),   *)
(* the catalog operations of ICNS (src/icns.go) and the run-length codec   *)
(* exercised by TestRLE (src/unnamed/part_000).                            *)
(*                                                                         *)
(* Three specifications share the module:                                  *)
(*   Spec      one call of readICNS on a byte stream, one loop iteration   *)
(*             per step;                                                   *)
(*   SpecICNS  a collection made by NewICNS and used through Add,          *)
(*             ClosestResolution, ByResolution;                            *)
(*   SpecRLE   rle.Encode followed by rle.Decode on a byte sequence.       *)
(* The variables of the specifications that are not running stay at their  *)
(* idle values.                                                            *)
(***************************************************************************)
EXTENDS Integers, Sequences, FiniteSets, TLC

VARIABLES
    \* readICNS
    input,             \* the bytes handed to readICNS (never changes)
    r,                 \* binary.Reader: the bytes not yet consumed
    metaOnly,          \* the metaOnly parameter
    pc,                \* "idle" | "start" | "loop" | "done"
    minCompat,         \* local minCompat
    maxCompat,         \* local maxCompat
    assets,            \* local assets
    masks,             \* local masks: mask code -> decoded mask image
    unsupportedCodes,  \* local unsupportedCodes
    ret,               \* what readICNS returned
    trace,             \* history: one entry per chunk header the loop read
    snap,              \* history: assets/unsupportedCodes when the first
                       \* malformed chunk header was read
    \* ICNS catalog
    icns,              \* the ICNS value made by NewICNS
    opRet,             \* the last catalog call and what it returned
    nCalls,            \* number of catalog calls made
    \* run-length codec
    rleIn, rleEnc, rleDec, rlePc

parseVars == <<input, r, metaOnly, pc, minCompat, maxCompat, assets, masks,
               unsupportedCodes, ret, trace, snap>>
icnsVars  == <<icns, opRet, nCalls>>
rleVars   == <<rleIn, rleEnc, rleDec, rlePc>>
vars      == <<parseVars, icnsVars, rleVars>>

-----------------------------------------------------------------------------
(* Bounds of the model *)

\* longest chunk sequence of an input stream
MaxChunks == 3

\* most Add calls on one collection
MaxAdds == 3

\* images handed to Add are told apart by an identity in 1..NumImages
NumImages == 2

\* the codec's inputs: every sequence over two byte values up to MaxShort
\* bytes, and every concatenation of up to MaxSegs long segments
MaxShort == 6
MaxSegs == 2

-----------------------------------------------------------------------------
(* Bytes and big-endian words: internal/binary *)

Byte == 0..255

SetMin(S) == CHOOSE x \in S : \A y \in S : x <= y
SetMax(S) == CHOOSE x \in S : \A y \in S : x >= y

\* binary.BigEndian.Uint32 of the first four bytes of b
BE32(b) == b[1] * 16777216 + b[2] * 65536 + b[3] * 256 + b[4]

\* the four big-endian bytes of n
PutUint32(n) == <<n \div 16777216, (n \div 65536) % 256, (n \div 256) % 256, n % 256>>

\* Reader.Uint32: the value read and the reader advanced by four bytes
Uint32(rd) == [val |-> BE32(rd), rest |-> SubSeq(rd, 5, Len(rd))]

\* Reader.Section(n): the next n bytes as a sub-reader and the reader advanced
\* past them.  A length that is negative or larger than what is left takes
\* nothing past the end of the buffer: the remainder is treated as absent.
Section(rd, n) ==
    IF n < 0 \/ n > Len(rd)
    THEN [sub |-> <<>>, rest |-> <<>>, malformed |-> TRUE]
    ELSE [sub |-> SubSeq(rd, 1, n), rest |-> SubSeq(rd, n + 1, Len(rd)), malformed |-> FALSE]

-----------------------------------------------------------------------------
(* Type codes, resolutions and compatibility eras *)

magic == BE32(<<105, 99, 110, 115>>)   \* 'icns'

is32 == BE32(<<105, 115, 51, 50>>)
s8mk == BE32(<<115, 56, 109, 107>>)
il32 == BE32(<<105, 108, 51, 50>>)
l8mk == BE32(<<108, 56, 109, 107>>)
ih32 == BE32(<<105, 104, 51, 50>>)
h8mk == BE32(<<104, 56, 109, 107>>)
it32 == BE32(<<105, 116, 51, 50>>)
t8mk == BE32(<<116, 56, 109, 107>>)
ic04 == BE32(<<105, 99, 48, 52>>)
ic05 == BE32(<<105, 99, 48, 53>>)
icp4 == BE32(<<105, 99, 112, 52>>)
icp5 == BE32(<<105, 99, 112, 53>>)
icp6 == BE32(<<105, 99, 112, 54>>)
ic07 == BE32(<<105, 99, 48, 55>>)
ic08 == BE32(<<105, 99, 48, 56>>)
ic09 == BE32(<<105, 99, 48, 57>>)
ic10 == BE32(<<105, 99, 49, 48>>)
ic11 == BE32(<<105, 99, 49, 49>>)
ic12 == BE32(<<105, 99, 49, 50>>)
ic13 == BE32(<<105, 99, 49, 51>>)
ic14 == BE32(<<105, 99, 49, 52>>)

\* a code that is in neither table ('TOC ')
tocCode == BE32(<<84, 79, 67, 32>>)

Pixel16   == 16
Pixel32   == 32
Pixel64   == 64
Pixel128  == 128
Pixel256  == 256
Pixel512  == 512
Pixel1024 == 1024

\* Compatibility: a total order of platform generations
Allegro      == 0
Cheetah      == 1
Leopard      == 2
Lion         == 3
MountainLion == 4
Oldest == Allegro
Newest == MountainLion

Compatibility == Oldest..Newest

-----------------------------------------------------------------------------
(* The format registry: init() *)

Format(code, combine, res, compat, codec) ==
    [Code |-> code, CombineCode |-> combine, Res |-> res, Compat |-> compat, Codec |-> codec]

legacyFormats ==
    { <<is32, s8mk, Pixel16>>, <<il32, l8mk, Pixel32>>,
      <<ih32, h8mk, Pixel16>>, <<it32, t8mk, Pixel32>> }

argbFormats == { <<ic04, Pixel16>>, <<ic05, Pixel32>> }

modernFormats ==
    { <<icp4, Pixel16, Lion>>, <<icp5, Pixel32, Lion>>, <<icp6, Pixel64, Lion>>,
      <<ic07, Pixel128, Lion>>, <<ic08, Pixel256, Leopard>>, <<ic09, Pixel512, Leopard>>,
      <<ic10, Pixel1024, Lion>>, <<ic11, Pixel32, MountainLion>>,
      <<ic12, Pixel64, MountainLion>>, <<ic13, Pixel256, MountainLion>>,
      <<ic14, Pixel512, MountainLion>> }

\* the values of the map supportedImageFormats
supportedImageFormats ==
    { Format(f[1], f[2], f[3], Allegro, "PackCodec") : f \in legacyFormats }
    \cup { Format(f[1], 0, f[2], Cheetah, "ARGBCodec") : f \in argbFormats }
    \cup { Format(f[1], 0, f[2], f[3], "ImageCodec") : f \in modernFormats }

\* the values of the map supportedMaskFormats
supportedMaskFormats ==
    { Format(f[2], f[1], f[3], Allegro, "MaskCodec") : f \in legacyFormats }

ImageCodes == { f.Code : f \in supportedImageFormats }
MaskCodes  == { f.Code : f \in supportedMaskFormats }

\* supportedImageFormats[code], for a code the map holds
ImageFormat(code) == CHOOSE f \in supportedImageFormats : f.Code = code
\* supportedMaskFormats[code], for a code the map holds
MaskFormat(code)  == CHOOSE f \in supportedMaskFormats : f.Code = code

-----------------------------------------------------------------------------
(* Values of readICNS *)

\* an image.Image: the chunk it was decoded from and the mask blended into it
NilImage == [src |-> 0, mask |-> 0]
Image(code) == [src |-> code, mask |-> 0]

\* draw.DrawMask(c, r, i, pt, m, pt, draw.Over): i seen through the mask m
DrawMask(i, m) == [src |-> i.src, mask |-> m.src]

\* the Img of an image chunk
Img(f, image, enc, data) == [Format |-> f, Image |-> image, Encoder |-> enc, Data |-> data]

\* the *ICNS a call returns
ICNSValue(mn, mx, as, uc) ==
    [minCompat |-> mn, maxCompat |-> mx, Assets |-> as, unsupportedCodes |-> uc]

NoReturn  == [returned |-> FALSE, nil |-> TRUE, err |-> FALSE,
              icns |-> ICNSValue(Oldest, Oldest, <<>>, <<>>)]
\* return nil, fmt.Errorf(...)
ReturnErr == [returned |-> TRUE, nil |-> TRUE, err |-> TRUE,
              icns |-> ICNSValue(Oldest, Oldest, <<>>, <<>>)]
\* return &ICNS{...}, nil
ReturnICNS(mn, mx, as, uc) ==
    [returned |-> TRUE, nil |-> FALSE, err |-> FALSE, icns |-> ICNSValue(mn, mx, as, uc)]

NoSnap == [seen |-> FALSE, assets |-> <<>>, unsupportedCodes |-> <<>>]

-----------------------------------------------------------------------------
(* The input streams *)

\* the codes the streams are built from: a legacy colour format, its mask,
\* the mask of another format, a modern format and an unknown code
StreamCodes == {is32, s8mk, l8mk, ic08, tocCode}

\* the length a chunk header declares: the true one ("exact"), one beyond the
\* end of any stream ("over"), one smaller than the header itself ("under")
ChunkPayload == <<7>>

ChunkKinds ==
    [code : StreamCodes, length : {"exact"}]
    \cup [code : {is32, s8mk, tocCode}, length : {"over"}]
    \cup [code : {ic08, tocCode}, length : {"under"}]

DeclaredLength(c) ==
    CASE c.length = "exact" -> 8 + Len(ChunkPayload)
      [] c.length = "over"  -> 200
      [] c.length = "under" -> 4

ChunkBytes(c) == PutUint32(c.code) \o PutUint32(DeclaredLength(c)) \o ChunkPayload

RECURSIVE Concat(_)
Concat(ss) == IF ss = <<>> THEN <<>> ELSE Head(ss) \o Concat(Tail(ss))

BodyBytes(cs) == Concat([k \in 1..Len(cs) |-> ChunkBytes(cs[k])])

\* a container: magic (or a wrong first word), the declared size, the chunks
StreamBytes(goodMagic, cs) ==
    PutUint32(IF goodMagic THEN magic ELSE tocCode)
        \o PutUint32(8 + Len(BodyBytes(cs))) \o BodyBytes(cs)

ChunkSeqs(n) == UNION { [1..k -> ChunkKinds] : k \in 0..n }

\* every chunk sequence behind the magic, the short ones behind a wrong word;
\* a stream ends at a chunk boundary or inside a payload, never inside a
\* chunk header
Streams ==
    { StreamBytes(TRUE, cs) : cs \in ChunkSeqs(MaxChunks) }
    \cup { StreamBytes(FALSE, cs) : cs \in ChunkSeqs(1) }

-----------------------------------------------------------------------------
(* readICNS *)

\* faulty variant of HeaderOk: the magic is not looked at
HeaderOkAlways(hdr) == TRUE
\* hdr != magic is the negation of this
HeaderOk(hdr) == hdr = magic

\* faulty variant of LowerMin: the assignment without its condition
LowerMinTo(c, cur) == c
\* if f.Compat < minCompat { minCompat = f.Compat }
LowerMin(c, cur) == IF c < cur THEN c ELSE cur

\* if f.Compat > maxCompat { maxCompat = f.Compat }
RaiseMax(c, cur) == IF c > cur THEN c ELSE cur

\* faulty variant of LookupMask: any cached mask, whatever its code
AnyMask(ms, f) ==
    IF DOMAIN ms = {} THEN NilImage ELSE ms[CHOOSE c \in DOMAIN ms : TRUE]
\* masks[f.CombineCode]: NilImage when the map has no such key
LookupMask(ms, f) ==
    IF f.CombineCode \in DOMAIN ms THEN ms[f.CombineCode] ELSE NilImage

\* masks[code] = i
StoreMask(ms, code, i) ==
    [c \in DOMAIN ms \cup {code} |-> IF c = code THEN i ELSE ms[c]]

\* the image of a decoded colour chunk, blended with its mask when one is cached
Composite(i, m) == IF m # NilImage THEN DrawMask(i, m) ELSE i

\* faulty variant of AppendCode: the list kept as a set
AppendCodeOnce(uc, code) ==
    IF \E k \in DOMAIN uc : uc[k] = code THEN uc ELSE Append(uc, code)
\* unsupportedCodes = append(unsupportedCodes, code)
AppendCode(uc, code) == Append(uc, code)

\* faulty variant of AssetsAfter: no continue on a decode error
AssetsAlways(as, asset, failed) == Append(as, asset)
\* the assets after an image chunk: appended unless the decode failed
\* (continue) -- in metaOnly mode nothing is decoded and nothing can fail
AssetsAfter(as, asset, failed) == IF failed THEN as ELSE Append(as, asset)

\* the chunk header at the reader and the section it declares
ChunkAt(rd) ==
    LET c == Uint32(rd)
        s == Uint32(c.rest)
        sec == Section(s.rest, s.val - 8)
    IN  [code |-> c.val, size |-> s.val, sub |-> sec.sub, rest |-> sec.rest,
         malformed |-> sec.malformed]

Entry(ch, kind, outcome) ==
    [code |-> ch.code, malformed |-> ch.malformed, kind |-> kind, outcome |-> outcome]

Snap(ch) ==
    IF ch.malformed /\ ~snap.seen
    THEN [seen |-> TRUE, assets |-> assets, unsupportedCodes |-> unsupportedCodes]
    ELSE snap

\* lines 29-42: the magic check, the size word, the locals
ReadHeader ==
    /\ pc = "start"
    /\ LET hdr == Uint32(r)
       IN  IF ~HeaderOk(hdr.val)
           THEN /\ pc' = "done"
                /\ ret' = ReturnErr
                /\ r' = hdr.rest
                /\ UNCHANGED <<minCompat, maxCompat, assets, masks, unsupportedCodes>>
           ELSE /\ pc' = "loop"
                /\ r' = Uint32(hdr.rest).rest
                /\ minCompat' = Newest
                /\ maxCompat' = Oldest
                /\ assets' = <<>>
                /\ masks' = <<>>
                /\ unsupportedCodes' = <<>>
                /\ ret' = ret
    /\ UNCHANGED <<input, metaOnly, trace, snap, icnsVars, rleVars>>

\* lines 44-73: one iteration on a chunk whose code is a mask format
MaskChunk ==
    /\ pc = "loop"
    /\ Len(r) # 0
    /\ LET ch == ChunkAt(r)
       IN  /\ ch.code \in MaskCodes
           /\ r' = ch.rest
           /\ snap' = Snap(ch)
           /\ IF metaOnly
              THEN /\ trace' = Append(trace, Entry(ch, "mask", "skipped"))
                   /\ UNCHANGED <<minCompat, maxCompat, masks>>
              ELSE \E decodeErr \in BOOLEAN :
                     IF decodeErr
                     THEN /\ trace' = Append(trace, Entry(ch, "mask", "error"))
                          /\ UNCHANGED <<minCompat, maxCompat, masks>>
                     ELSE LET f == MaskFormat(ch.code)
                          IN  /\ minCompat' = LowerMin(f.Compat, minCompat)
                              /\ maxCompat' = RaiseMax(f.Compat, maxCompat)
                              /\ masks' = StoreMask(masks, ch.code, Image(ch.code))
                              /\ trace' = Append(trace, Entry(ch, "mask", "decoded"))
    /\ UNCHANGED <<input, metaOnly, pc, assets, unsupportedCodes, ret, icnsVars, rleVars>>

\* lines 44-51, 75-121: one iteration on a chunk whose code is an image format
ImageChunk ==
    /\ pc = "loop"
    /\ Len(r) # 0
    /\ LET ch == ChunkAt(r)
       IN  /\ ch.code \notin MaskCodes
           /\ ch.code \in ImageCodes
           /\ r' = ch.rest
           /\ snap' = Snap(ch)
           /\ LET f == ImageFormat(ch.code)
              IN  IF metaOnly
                  THEN /\ assets' = AssetsAfter(assets, Img(f, NilImage, "", <<>>), FALSE)
                       /\ minCompat' = LowerMin(f.Compat, minCompat)
                       /\ maxCompat' = RaiseMax(f.Compat, maxCompat)
                       /\ trace' = Append(trace, Entry(ch, "image", "placeholder"))
                  ELSE \E decodeErr \in BOOLEAN :
                         LET i == Composite(Image(ch.code), LookupMask(masks, f))
                             asset == Img(f, i, f.Codec, ch.sub)
                         IN  /\ assets' = AssetsAfter(assets, asset, decodeErr)
                             /\ IF decodeErr
                                THEN /\ trace' = Append(trace, Entry(ch, "image", "error"))
                                     /\ UNCHANGED <<minCompat, maxCompat>>
                                ELSE /\ minCompat' = LowerMin(f.Compat, minCompat)
                                     /\ maxCompat' = RaiseMax(f.Compat, maxCompat)
                                     /\ trace' = Append(trace, Entry(ch, "image", "decoded"))
    /\ UNCHANGED <<input, metaOnly, pc, masks, unsupportedCodes, ret, icnsVars, rleVars>>

\* lines 44-51, 123: one iteration on a chunk whose code is in neither table
UnsupportedChunk ==
    /\ pc = "loop"
    /\ Len(r) # 0
    /\ LET ch == ChunkAt(r)
       IN  /\ ch.code \notin MaskCodes
           /\ ch.code \notin ImageCodes
           /\ r' = ch.rest
           /\ snap' = Snap(ch)
           /\ unsupportedCodes' = AppendCode(unsupportedCodes, ch.code)
           /\ trace' = Append(trace, Entry(ch, "unknown", "unsupported"))
    /\ UNCHANGED <<input, metaOnly, pc, minCompat, maxCompat, assets, masks, ret,
                   icnsVars, rleVars>>

\* lines 44-46, 126-131: the reader is empty, the collection is returned
Return ==
    /\ pc = "loop"
    /\ Len(r) = 0
    /\ pc' = "done"
    /\ ret' = ReturnICNS(minCompat, maxCompat, assets, unsupportedCodes)
    /\ UNCHANGED <<input, r, metaOnly, minCompat, maxCompat, assets, masks,
                   unsupportedCodes, trace, snap, icnsVars, rleVars>>

-----------------------------------------------------------------------------
(* Idle values of the three groups of variables *)

ParseIdle ==
    /\ input = <<>> /\ r = <<>> /\ metaOnly = FALSE /\ pc = "idle"
    /\ minCompat = Newest /\ maxCompat = Oldest
    /\ assets = <<>> /\ masks = <<>> /\ unsupportedCodes = <<>>
    /\ ret = NoReturn /\ trace = <<>> /\ snap = NoSnap

NoImage == [id |-> 0, dx |-> 0, dy |-> 0]

\* a catalog call: its name, its argument (the image of Add, the resolution
\* of the two lookups), what it returned (an index into Assets for an *Img,
\* 0 for nil; the image.Image of ByResolution) and, for Add, the Assets the
\* call found
Call(op, im, res, err, idx, image, old) ==
    [op |-> op, im |-> im, r |-> res, err |-> err, idx |-> idx, image |-> image,
     old |-> old]

NoCall == Call("none", NoImage, 0, FALSE, 0, NoImage, <<>>)

ICNSIdle ==
    /\ icns = ICNSValue(Oldest, Newest, <<>>, <<>>)
    /\ opRet = NoCall
    /\ nCalls = 0

RLEIdle ==
    /\ rleIn = <<>> /\ rleEnc = <<>> /\ rleDec = <<>> /\ rlePc = "idle"

-----------------------------------------------------------------------------
(* Spec: readICNS on every stream, in both modes *)

Init ==
    /\ input \in Streams
    /\ r = input
    /\ metaOnly \in BOOLEAN
    /\ pc = "start"
    /\ minCompat = Newest /\ maxCompat = Oldest
    /\ assets = <<>> /\ masks = <<>> /\ unsupportedCodes = <<>>
    /\ ret = NoReturn /\ trace = <<>> /\ snap = NoSnap
    /\ ICNSIdle
    /\ RLEIdle

Next ==
    \/ ReadHeader
    \/ MaskChunk
    \/ ImageChunk
    \/ UnsupportedChunk
    \/ Return

Spec == Init /\ [][Next]_vars

-----------------------------------------------------------------------------
(* Properties of readICNS *)

Indices(q) == [k \in 1..Len(q) |-> k]

\* the trace entries that put an asset into the collection, in stream order
IsAssetEntry(e) == e.kind = "image" /\ e.outcome \in {"decoded", "placeholder"}
AssetEntries == SelectSeq(Indices(trace), LAMBDA k : IsAssetEntry(trace[k]))

\* the trace entries of chunks the codec decoded
DecodedEntries == { k \in DOMAIN trace : trace[k].outcome = "decoded" }

EntryCompat(e) ==
    IF e.kind = "mask" THEN MaskFormat(e.code).Compat ELSE ImageFormat(e.code).Compat

\* a mask chunk with the given code was decoded before trace entry k
MaskDecodedBefore(code, k) ==
    \E m \in 1..(k - 1) :
        /\ trace[m].kind = "mask"
        /\ trace[m].outcome = "decoded"
        /\ trace[m].code = code

Composited(a) == a.Image.mask # 0

\* C2: in full mode an asset is composited with its paired mask if and only
\* if a mask chunk with the colour format's paired code was decoded earlier
\* in the stream; this stays so in every later state, whatever mask chunks
\* follow the colour chunk.
C2_CompositeIffMaskEarlier ==
    ~metaOnly =>
        /\ Len(AssetEntries) = Len(assets)
        /\ \A k \in DOMAIN assets :
             /\ Composited(assets[k])
                  <=> MaskDecodedBefore(assets[k].Format.CombineCode, AssetEntries[k])
             /\ Composited(assets[k])
                  => assets[k].Image.mask = assets[k].Format.CombineCode

\* a colour chunk, then its mask, then the colour chunk again: the first
\* asset stays uncomposited, the second is composited
C2_Witness ==
    /\ pc = "done" /\ ~metaOnly /\ Len(assets) = 2 /\ Len(trace) = 3
    /\ trace[2].kind = "mask" /\ trace[2].outcome = "decoded"
    /\ trace[2].code = assets[1].Format.CombineCode
    /\ ~Composited(assets[1])
    /\ Composited(assets[2])

\* C3: when a chunk header declares a payload length that is negative or
\* larger than what is left, the call returns without error the collection
\* holding exactly the assets and unsupported codes gathered before that chunk.
C3_MalformedChunkAddsNothing ==
    (pc = "done" /\ snap.seen) =>
        /\ ~ret.err /\ ~ret.nil
        /\ trace[Len(trace)].malformed
        /\ ret.icns.Assets = snap.assets
        /\ ret.icns.unsupportedCodes = snap.unsupportedCodes

IsKnownCode(code) == code \in MaskCodes \/ code \in ImageCodes

UnknownEntries == SelectSeq(trace, LAMBDA e : ~IsKnownCode(e.code))

\* C5: the codes of the chunks that are in neither table are the unsupported
\* list, once per occurrence and in stream order; the iteration on such a
\* chunk adds no asset, leaves the compatibility range alone and goes on with
\* the bytes after the chunk.
C5_UnknownCodesKept ==
    /\ [](unsupportedCodes = [k \in 1..Len(UnknownEntries) |-> UnknownEntries[k].code])
    /\ [][(pc = "loop" /\ Len(r) # 0 /\ ~IsKnownCode(ChunkAt(r).code)) =>
            /\ unsupportedCodes' = Append(unsupportedCodes, ChunkAt(r).code)
            /\ assets' = assets
            /\ minCompat' = minCompat /\ maxCompat' = maxCompat
            /\ pc' = "loop"
            /\ r' = ChunkAt(r).rest]_vars

\* the same unknown code twice, then a chunk that is still parsed
C5_Witness ==
    /\ Len(trace) = 3
    /\ trace[1].outcome = "unsupported" /\ trace[2].outcome = "unsupported"
    /\ trace[1].code = trace[2].code
    /\ Len(unsupportedCodes) = 2
    /\ trace[3].outcome = "decoded"

LastOutcome(t) == IF t = <<>> THEN "none" ELSE t[Len(t)].outcome

\* C6: in full mode the iteration on a chunk whose decode fails changes
\* nothing but the reader, which moves to the bytes after the chunk: no asset,
\* no mask-cache entry, no unsupported code, and the loop goes on.
C6_DecodeFailureSkipsChunk ==
    [][(Len(trace') = Len(trace) + 1 /\ LastOutcome(trace') = "error") =>
         /\ ~metaOnly
         /\ assets' = assets
         /\ masks' = masks
         /\ unsupportedCodes' = unsupportedCodes
         /\ minCompat' = minCompat /\ maxCompat' = maxCompat
         /\ pc' = "loop"
         /\ r' = ChunkAt(r).rest]_vars

\* a failed colour chunk, a decoded mask, a colour chunk composited with it
C6_Witness ==
    /\ pc = "done" /\ Len(trace) = 3 /\ Len(assets) = 1
    /\ trace[1].kind = "image" /\ trace[1].outcome = "error"
    /\ trace[2].kind = "mask" /\ trace[2].outcome = "decoded"
    /\ trace[3].kind = "image" /\ trace[3].outcome = "decoded"
    /\ Composited(assets[1])

DecodedCompats == { EntryCompat(trace[k]) : k \in DecodedEntries }

\* C7: in full mode minCompat and maxCompat are the minimum and the maximum
\* era over exactly the decoded mask and image chunks, so minCompat <=
\* maxCompat once a chunk is decoded; the returned collection carries them.
C7_CompatRange ==
    (~metaOnly /\ pc \in {"loop", "done"} /\ ~ret.err) =>
        /\ DecodedEntries # {} =>
             /\ minCompat = SetMin(DecodedCompats)
             /\ maxCompat = SetMax(DecodedCompats)
             /\ minCompat <= maxCompat
        /\ DecodedEntries = {} => (minCompat = Newest /\ maxCompat = Oldest)
        /\ pc = "done" =>
             (ret.icns.minCompat = minCompat /\ ret.icns.maxCompat = maxCompat)

\* a decoded modern chunk, a decoded legacy chunk after it, and a chunk of a
\* third kind that does not count
C7_Witness ==
    /\ pc = "done" /\ ~metaOnly /\ Len(trace) = 3
    /\ Cardinality(DecodedEntries) = 2
    /\ ret.icns.minCompat = Allegro /\ ret.icns.maxCompat = Leopard
    /\ trace[1].outcome = "decoded" /\ EntryCompat(trace[1]) = Leopard

-----------------------------------------------------------------------------
(* The catalog: NewICNS, Add, ClosestResolution, ByResolution *)

\* the square and non-square images handed to Add: sides with four and two
\* registered formats (16, 64) and with none (48)
ImageSides == {Pixel16, Pixel64, 48}
Images ==
    { [id |-> n, dx |-> d, dy |-> d] : n \in 1..NumImages, d \in ImageSides }
    \cup { [id |-> n, dx |-> Pixel16, dy |-> Pixel64] : n \in 1..NumImages }

\* the resolutions asked of ClosestResolution and ByResolution
Requests == {0, Pixel16, 17, Pixel64, 65}

\* NewICNS(WithMinCompatibility(mn), WithMaxCompatibility(mx))
NewICNS(mn, mx) == ICNSValue(mn, mx, <<>>, <<>>)

\* all orders in which a range over a map can visit the formats of S
Orders(S) ==
    { q \in [1..Cardinality(S) -> S] : \A a, b \in DOMAIN q : a # b => q[a] # q[b] }

\* faulty variant of AddFormat: the append without the search
AddFormatAppend(as, f, im) == Append(as, Img(f, im, "", <<>>))
\* lines 149-162: the inner loop and the append for one matching format f
AddFormat(as, f, im) ==
    IF \E k \in DOMAIN as : as[k].Format = f
    THEN [k \in DOMAIN as |->
            IF as[k].Format = f THEN [as[k] EXCEPT !.Image = im] ELSE as[k]]
    ELSE Append(as, Img(f, im, "", <<>>))

RECURSIVE AddFormats(_, _, _)
AddFormats(as, order, im) ==
    IF order = <<>> THEN as
    ELSE AddFormats(AddFormat(as, Head(order), im), Tail(order), im)

\* lines 141-147: the registered formats Add acts on
AddMatching(c, dx) ==
    { f \in supportedImageFormats :
        /\ ~(f.Compat < c.minCompat \/ f.Compat > c.maxCompat)
        /\ f.Res = dx }

\* lines 71-86: the loop of ClosestResolution as a fold, the state being
\* <<res, result, isFound>> with result an index into Assets (0 is nil)
RECURSIVE ClosestLoop(_, _, _, _)
ClosestLoop(as, k, req, st) ==
    IF k > Len(as) THEN st
    ELSE LET res == as[k].Format.Res
         IN  IF res >= req
             THEN IF st[3] /\ st[1] < res
                  THEN ClosestLoop(as, k + 1, req, st)
                  ELSE ClosestLoop(as, k + 1, req, <<res, k, TRUE>>)
             ELSE ClosestLoop(as, k + 1, req, st)

\* lines 104-118: highestResolutionAsset as a fold over <<res, img>>
RECURSIVE HighestLoop(_, _, _)
HighestLoop(as, k, st) ==
    IF k > Len(as) THEN st
    ELSE IF as[k].Format.Res > st[1]
         THEN HighestLoop(as, k + 1, <<as[k].Format.Res, k>>)
         ELSE HighestLoop(as, k + 1, st)

highestResolutionAsset(c) ==
    LET img == HighestLoop(c.Assets, 1, <<0, 0>>)[2]
    IN  [idx |-> img, err |-> img = 0]

ClosestResolutionOf(c, req) ==
    LET result == ClosestLoop(c.Assets, 1, req, <<0, 0, FALSE>>)[2]
    IN  IF result = 0 THEN highestResolutionAsset(c)
        ELSE [idx |-> result, err |-> FALSE]

\* lines 95-102: the image of the first asset of resolution req
ByResolutionOf(c, req) ==
    LET hits == { k \in DOMAIN c.Assets : c.Assets[k].Format.Res = req }
    IN  IF hits = {} THEN [image |-> NoImage, err |-> TRUE]
        ELSE [image |-> c.Assets[SetMin(hits)].Image, err |-> FALSE]

\* ICNS.Add(im)
Add ==
    /\ rlePc = "idle" /\ pc = "idle"
    /\ nCalls < MaxAdds
    /\ \E im \in Images :
         /\ nCalls' = nCalls + 1
         /\ IF im.dx # im.dy
            THEN /\ icns' = icns
                 /\ opRet' = Call("Add", im, 0, TRUE, 0, NoImage, icns.Assets)
            ELSE LET matching == AddMatching(icns, im.dx)
                 IN  IF matching = {}
                     THEN /\ icns' = icns
                          /\ opRet' = Call("Add", im, 0, TRUE, 0, NoImage, icns.Assets)
                     ELSE \E order \in Orders(matching) :
                            /\ icns' = [icns EXCEPT
                                          !.Assets = AddFormats(icns.Assets, order, im)]
                            /\ opRet' = Call("Add", im, 0, FALSE, 0, NoImage, icns.Assets)
    /\ UNCHANGED <<parseVars, rleVars>>

\* ICNS.ClosestResolution(req)
ClosestResolution ==
    /\ rlePc = "idle" /\ pc = "idle"
    /\ \E req \in Requests :
         LET got == ClosestResolutionOf(icns, req)
         IN  opRet' = Call("ClosestResolution", NoImage, req, got.err, got.idx, NoImage, <<>>)
    /\ UNCHANGED <<icns, nCalls, parseVars, rleVars>>

\* ICNS.ByResolution(req)
ByResolution ==
    /\ rlePc = "idle" /\ pc = "idle"
    /\ \E req \in Requests :
         LET got == ByResolutionOf(icns, req)
         IN  opRet' = Call("ByResolution", NoImage, req, got.err, 0, got.image, <<>>)
    /\ UNCHANGED <<icns, nCalls, parseVars, rleVars>>

InitICNS ==
    /\ ParseIdle
    /\ RLEIdle
    /\ \E mn, mx \in Compatibility : icns = NewICNS(mn, mx)
    /\ opRet = NoCall
    /\ nCalls = 0

NextICNS ==
    \/ Add
    \/ ClosestResolution
    \/ ByResolution

SpecICNS == InitICNS /\ [][NextICNS]_vars

-----------------------------------------------------------------------------
(* Properties of the catalog *)

Dist(a, b) == IF a >= b THEN a - b ELSE b - a

\* C9: ClosestResolution(r) returns an asset no other asset of the collection
\* is nearer to r than, and fails only when no asset has a positive resolution.
C9_ClosestIsNearest ==
    opRet.op = "ClosestResolution" =>
        /\ icns.Assets # <<>> =>
             /\ ~opRet.err
             /\ opRet.idx \in DOMAIN icns.Assets
             /\ \A k \in DOMAIN icns.Assets :
                  Dist(icns.Assets[k].Format.Res, opRet.r)
                      >= Dist(icns.Assets[opRet.idx].Format.Res, opRet.r)
        /\ opRet.err => ~\E k \in DOMAIN icns.Assets : icns.Assets[k].Format.Res > 0

\* C10: after any sequence of Add calls no two assets share a format; after
\* a successful Add(im) of a square image of side d every asset of resolution
\* d holds im and ByResolution(d) returns im; Add fails exactly for a
\* non-square image or a side with no registered format in the range, and
\* then the asset list is the one the call found.
C10_AddReplaces ==
    /\ \A a, b \in DOMAIN icns.Assets :
         a # b => icns.Assets[a].Format # icns.Assets[b].Format
    /\ opRet.op = "Add" =>
         /\ opRet.err <=>
              \/ opRet.im.dx # opRet.im.dy
              \/ ~\E f \in supportedImageFormats :
                    /\ f.Res = opRet.im.dx
                    /\ icns.minCompat <= f.Compat /\ f.Compat <= icns.maxCompat
         /\ opRet.err => icns.Assets = opRet.old
         /\ ~opRet.err =>
              /\ \E k \in DOMAIN icns.Assets : icns.Assets[k].Format.Res = opRet.im.dx
              /\ \A k \in DOMAIN icns.Assets :
                   icns.Assets[k].Format.Res = opRet.im.dx
                       => icns.Assets[k].Image = opRet.im
              /\ ByResolutionOf(icns, opRet.im.dx) = [image |-> opRet.im, err |-> FALSE]

\* an Add that replaced the image of several assets of its resolution and
\* left an asset of another resolution alone
C10_Witness ==
    /\ opRet.op = "Add" /\ ~opRet.err
    /\ Len(icns.Assets) = Len(opRet.old)
    /\ Cardinality({ k \in DOMAIN opRet.old :
                       /\ opRet.old[k].Format.Res = opRet.im.dx
                       /\ opRet.old[k].Image # opRet.im }) > 1
    /\ \E k \in DOMAIN icns.Assets : icns.Assets[k].Format.Res # opRet.im.dx

-----------------------------------------------------------------------------
(* The run-length codec: rle.Encode, rle.Decode *)

\* a run record stands for MinRun..MaxRun bytes, a literal record for
\* 1..MaxLiteral bytes; a flag byte of RunFlag or more is a run record
MinRun == 3
MaxRun == 130
MaxLiteral == 128
RunFlag == 128

Repeat(b, n) == [k \in 1..n |-> b]

\* the first index after pos whose byte differs from data[pos], or the
\* index after the last byte
NextDiff(data, pos) ==
    SetMin({ k \in (pos + 1)..Len(data) : data[k] # data[pos] } \cup {Len(data) + 1})

\* faulty variant of RunLength: the count stops at MaxLiteral
RunLengthTo128(data, pos) ==
    LET n == NextDiff(data, pos) - pos IN IF n > MaxLiteral THEN MaxLiteral ELSE n
\* the number of bytes equal to data[pos] from pos on, counted up to MaxRun
RunLength(data, pos) ==
    LET n == NextDiff(data, pos) - pos IN IF n > MaxRun THEN MaxRun ELSE n

\* whether the bytes from pos on start with at least m equal bytes
RunAtLeast(data, pos, m) ==
    /\ pos + m - 1 <= Len(data)
    /\ \A k \in 1..(m - 1) : data[pos + k] = data[pos]

\* faulty variant of StartsRun: a run record for two equal bytes
StartsRunFrom2(data, pos) == RunAtLeast(data, pos, 2)
\* whether the scan writes a run record at pos: the run there is MinRun long
StartsRun(data, pos) == RunAtLeast(data, pos, MinRun)

\* the run record of n bytes b
RunRecord(b, n) == <<RunFlag + (n - MinRun), b>>

\* the pending literal buffer written out as one literal record
Flush(lit) == IF lit = <<>> THEN <<>> ELSE <<Len(lit) - 1>> \o lit

\* the first position from pos on where the scan writes a run record, or the
\* index after the last byte: the bytes before it go to the literal buffer
NextRunStart(data, pos) ==
    SetMin({ p \in pos..Len(data) : StartsRun(data, p) } \cup {Len(data) + 1})

\* the literal records of the bytes lit, which the scan puts one by one into
\* the buffer and flushes when the buffer holds MaxLiteral bytes, and at the
\* end of the stretch
LiteralRecords(lit) ==
    LET full == Len(lit) \div MaxLiteral
        part(k) == SubSeq(lit, (k - 1) * MaxLiteral + 1,
                          IF k * MaxLiteral > Len(lit) THEN Len(lit) ELSE k * MaxLiteral)
    IN  Concat([k \in 1..(full + 1) |-> Flush(part(k))])

\* the greedy left-to-right scan of Encode from position pos: the literal
\* bytes up to the next run of MinRun, then the run record at it
RECURSIVE EncodeFrom(_, _, _)
EncodeFrom(data, pos, out) ==
    IF pos > Len(data) THEN out
    ELSE LET p == NextRunStart(data, pos)
             lits == LiteralRecords(SubSeq(data, pos, p - 1))
         IN  IF p > Len(data) THEN out \o lits
             ELSE LET n == RunLength(data, p)
                  IN  EncodeFrom(data, p + n, out \o lits \o RunRecord(data[p], n))

Encode(data) == EncodeFrom(data, 1, <<>>)

\* Decode from position pos: one flag byte at a time, stopping at the end of
\* the buffer
RECURSIVE DecodeFrom(_, _, _)
DecodeFrom(enc, pos, out) ==
    IF pos > Len(enc) THEN out
    ELSE LET flag == enc[pos]
         IN  IF flag >= RunFlag
             THEN IF pos + 1 > Len(enc) THEN out
                  ELSE DecodeFrom(enc, pos + 2,
                                  out \o Repeat(enc[pos + 1], flag - RunFlag + MinRun))
             ELSE LET n == flag + 1
                      last == IF pos + n > Len(enc) THEN Len(enc) ELSE pos + n
                  IN  DecodeFrom(enc, pos + 1 + n, out \o SubSeq(enc, pos + 1, last))

Decode(enc) == DecodeFrom(enc, 1, <<>>)

\* TestRLE's table: name, dec, enc
Cycle10(n) == [k \in 1..n |-> (k - 1) % 10]

TestData ==
    << [name |-> "empty", dec |-> <<>>, enc |-> <<>>],
       [name |-> "small",
        dec |-> <<1, 2, 2, 3, 3, 3, 4, 4, 4, 4, 5, 5, 5, 5, 5>>,
        enc |-> <<2, 1, 2, 2, 128, 3, 129, 4, 130, 5>>],
       [name |-> "zeros overload",
        dec |-> Repeat(0, 300),
        enc |-> <<255, 0, 255, 0, 165, 0>>],
       [name |-> "non repetitive",
        dec |-> Cycle10(130),
        enc |-> <<127>> \o Cycle10(128) \o <<1, 8, 9>>] >>

\* the codec's inputs
ShortInputs == UNION { [1..n -> {0, 1}] : n \in 0..MaxShort }

SegmentLengths == {1, 2, 3, 129, 130, 131, 132, 133}
CycleLengths == {127, 128, 129}

Segments ==
    { Repeat(b, n) : b \in {0, 1}, n \in SegmentLengths }
    \cup { Cycle10(n) : n \in CycleLengths }

SegmentInputs ==
    UNION { { Concat(q) : q \in [1..k -> Segments] } : k \in 1..MaxSegs }

RLEInputs ==
    ShortInputs \cup SegmentInputs \cup { TestData[k].dec : k \in DOMAIN TestData }

InitRLE ==
    /\ ParseIdle
    /\ ICNSIdle
    /\ rleIn \in RLEInputs
    /\ rleEnc = <<>>
    /\ rleDec = <<>>
    /\ rlePc = "input"

\* encoded := rle.Encode(tt.dec)
EncodeStep ==
    /\ rlePc = "input"
    /\ rleEnc' = Encode(rleIn)
    /\ rlePc' = "encoded"
    /\ UNCHANGED <<rleIn, rleDec, parseVars, icnsVars>>

\* decoded := rle.Decode(encoded)
DecodeStep ==
    /\ rlePc = "encoded"
    /\ rleDec' = Decode(rleEnc)
    /\ rlePc' = "decoded"
    /\ UNCHANGED <<rleIn, rleEnc, parseVars, icnsVars>>

NextRLE ==
    \/ EncodeStep
    \/ DecodeStep

SpecRLE == InitRLE /\ [][NextRLE]_vars

-----------------------------------------------------------------------------
(* Properties of the run-length codec *)

\* C1: Decode(Encode(b)) = b for every input b, and the encoding is made of
\* bytes.
C1_RoundTrip ==
    /\ rlePc \in {"encoded", "decoded"} => \A k \in DOMAIN rleEnc : rleEnc[k] \in Byte
    /\ rlePc = "decoded" => rleDec = rleIn


\* a run of 131 bytes followed by a non-repeating stretch of 129 bytes
C1_Witness ==
    /\ rlePc = "decoded"
    /\ rleIn = Repeat(1, 131) \o Cycle10(129)
    /\ rleDec = rleIn

\* TestRLE passes on the model: each row's dec encodes to its enc, and a row's
\* enc decodes to its dec
TestRLE ==
    \A k \in DOMAIN TestData :
        rleIn = TestData[k].dec =>
            /\ rlePc \in {"encoded", "decoded"} => rleEnc = TestData[k].enc
            /\ rlePc = "decoded" => rleDec = TestData[k].dec

\* the records of an encoded stream: run or literal, the number of bytes each
\* stands for and the index of the first of them in the decoded bytes
RECURSIVE RecordsFrom(_, _, _, _)
RecordsFrom(enc, pos, at, acc) ==
    IF pos > Len(enc) THEN acc
    ELSE LET flag == enc[pos]
         IN  IF flag >= RunFlag
             THEN RecordsFrom(enc, pos + 2, at + (flag - RunFlag + MinRun),
                      Append(acc, [run |-> TRUE, len |-> flag - RunFlag + MinRun, at |-> at]))
             ELSE RecordsFrom(enc, pos + 2 + flag, at + flag + 1,
                      Append(acc, [run |-> FALSE, len |-> flag + 1, at |-> at]))

Records(enc) == RecordsFrom(enc, 1, 1, <<>>)

\* the maximal runs of identical bytes of data: <<first index, length>>
MaximalRuns(data) ==
    { <<s, NextDiff(data, s) - s>> :
        s \in { t \in 1..Len(data) : t = 1 \/ data[t - 1] # data[t] } }

\* the run records that lie inside the maximal run <<s, L>>
RunRecordsIn(recs, run) ==
    { k \in DOMAIN recs :
        /\ recs[k].run
        /\ run[1] <= recs[k].at
        /\ recs[k].at + recs[k].len <= run[1] + run[2] }

CeilDiv(a, b) == (a + b - 1) \div b

\* C8 as claimed: every maximal run of L >= 3 identical bytes is encoded with
\* exactly ceil(L/130) run records, each covering 3 to 130 bytes, and a run
\* of fewer than 3 bytes with none.
C8_CeilRunRecords ==
    rlePc = "encoded" =>
        LET recs == Records(rleEnc)
        IN  /\ \A k \in DOMAIN recs :
                 recs[k].run => (MinRun <= recs[k].len /\ recs[k].len <= MaxRun)
            /\ \A run \in MaximalRuns(rleIn) :
                 Cardinality(RunRecordsIn(recs, run)) =
                     IF run[2] >= MinRun THEN CeilDiv(run[2], MaxRun) ELSE 0

\* C8 as amended: every maximal run of L >= 3 identical bytes is encoded with
\* floor(L/130) run records of 130 bytes and one more run record, of L mod 130
\* bytes, exactly when L mod 130 >= 3; this is ceil(L/130) run records unless
\* L mod 130 is 1 or 2, when the 1 or 2 bytes left over go into a literal
\* record.  Every run record covers 3 to 130 bytes and lies inside one
\* maximal run; a run of fewer than 3 bytes gets no run record.
C8_GreedyRunRecords ==
    rlePc = "encoded" =>
        LET recs == Records(rleEnc)
            runs == MaximalRuns(rleIn)
        IN  /\ \A k \in DOMAIN recs :
                 recs[k].run =>
                     /\ MinRun <= recs[k].len /\ recs[k].len <= MaxRun
                     /\ \E run \in runs : k \in RunRecordsIn(recs, run)
            /\ \A run \in runs :
                 LET in == RunRecordsIn(recs, run)
                     L == run[2]
                 IN  /\ Cardinality(in) =
                          IF L >= MinRun
                          THEN (L \div MaxRun) + (IF L % MaxRun >= MinRun THEN 1 ELSE 0)
                          ELSE 0
                     /\ Cardinality({ k \in in : recs[k].len = MaxRun }) >= L \div MaxRun
                     /\ (L >= MinRun /\ L % MaxRun \in 1..(MinRun - 1)) =>
                          \E k \in DOMAIN recs :
                              /\ ~recs[k].run
                              /\ recs[k].at = run[1] + (L \div MaxRun) * MaxRun

\* a run of 131 bytes written as one run record and a literal, next to a run
\* of 2 bytes that stays literal
C8_Witness ==
    /\ rlePc = "encoded"
    /\ rleIn = Repeat(0, 131) \o Repeat(1, 2)
    /\ rleEnc = <<255, 0, 2, 0, 1, 1>>

=============================================================================
